---- MODULE Spec2Model ----
(***************************************************************************)
(* Model of streamlit_andromeda.py: one Streamlit script that is re-run    *)
(* top to bottom on every user interaction.  The script routes on the      *)
(* sidebar selection to the Home, Upload Image or Live Camera page.  The   *)
(* two detection pages obtain the classifier through the cached loader,    *)
(* run detect_objects and draw_detection_boxes on a frame and display the  *)
(* result; the Live Camera page does so in a loop over camera frames.      *)
(*                                                                         *)
(* Abstractions.  A frame is the list of bounding rectangles that          *)
(* cv2.findContours/cv2.boundingRect produce for it, together with the     *)
(* list of overlay marks painted into its pixel buffer (empty for a frame  *)
(* as captured or decoded).  Scores are in hundredths (0.5 is 50).  The    *)
(* classifier is a function from the cropped rectangle to a 5-element      *)
(* score vector.                                                           *)
(***************************************************************************)
EXTENDS Integers, Sequences, FiniteSets

VARIABLES
    pc,           \* position of the running script
    selected,     \* sidebar selection (line 28)
    cache,        \* st.cache_resource entry of load_detection_model (line 37)
    loadCount,    \* number of executions of load_model('./model/model.h5')
    model,        \* the page's local `model`
    runWidget,    \* state of the 'Start Camera' checkbox in the browser
    run,          \* the script's local `run`, read at line 202
    camera,       \* cv2.VideoCapture(0) handle: "none", "open", "released"
    frame,        \* image_cv / frame: [contours, pixels]
    predict,      \* model.predict on this frame: rectangle -> score vector
    regions,      \* detect_objects' local `regions`
    detections,   \* result of detect_objects
    result_image, \* result_image / frame_with_detections
    messages,     \* st.error messages emitted by this script run
    polls,        \* camera.read() calls of this script run
    detectCalls,  \* detect_objects calls of this script run
    drawCalls,    \* draw_detection_boxes calls of this script run
    readFailed    \* camera.read() returned ret = False in this script run

vars == <<pc, selected, cache, loadCount, model, runWidget, run, camera, frame,
          predict, regions, detections, result_image, messages, polls, detectCalls,
          drawCalls, readFailed>>

----------------------------------------------------------------------------
(* Bounds *)

MaxContours == 2
MaxPolls == 2
MaxLoads == 2

(* Program constants *)

CONFIDENCE_THRESHOLD == 50
MinSize == 50

CLASS_NAMES == <<"karbohidrat", "protein", "buah", "sayur", "minuman">>

DefaultColor == <<0, 255, 0>>

DETECTION_COLORS(class_name) ==
    CASE class_name = "karbohidrat" -> <<255, 0, 0>>
      [] class_name = "protein"     -> <<0, 255, 0>>
      [] class_name = "buah"        -> <<0, 0, 255>>
      [] class_name = "sayur"       -> <<255, 255, 0>>
      [] class_name = "minuman"     -> <<255, 0, 255>>
      [] OTHER                      -> DefaultColor

Pages == {"Home", "Upload Image", "Live Camera"}

(* Inputs: bounding rectangles around the size threshold, score vectors
   around the confidence threshold. *)

Dims == {MinSize, MinSize + 1}
Rects == [x : {0, 30}, y : {0}, w : Dims, h : Dims]

SeqsUpTo(S, n) == UNION {[1..k -> S] : k \in 0..n}

Uniform == <<20, 20, 20, 20, 20>>
CarbStub == <<90, 2, 2, 2, 4>>
ScoreVectors == {CarbStub, Uniform, <<2, 50, 50, 2, 2>>, <<5, 10, 49, 30, 6>>}

NoFrame == [contours |-> <<>>, pixels |-> <<>>]
NoPredict == [r \in {} |-> Uniform]

Range(s) == {s[i] : i \in 1..Len(s)}

----------------------------------------------------------------------------
(* get_region_proposals, lines 57-69 *)

PassesSizeFilter_Or(r) == r.w > MinSize \/ r.h > MinSize

\* line 67: if w > 50 and h > 50
PassesSizeFilter(r) == r.w > MinSize /\ r.h > MinSize

RECURSIVE ProposeFrom(_, _)
\* lines 64-68: the loop over the contours' bounding rectangles
ProposeFrom(contours, acc) ==
    IF contours = <<>> THEN acc
    ELSE LET r == Head(contours) IN
         ProposeFrom(Tail(contours),
                     IF PassesSizeFilter(r) THEN Append(acc, r) ELSE acc)

get_region_proposals(image) == ProposeFrom(image.contours, <<>>)

----------------------------------------------------------------------------
(* detect_objects, lines 109-134 *)

\* np.max over the score vector (line 124)
np_max(v) == CHOOSE m \in Range(v) : \A k \in Range(v) : k <= m

np_argmax_Min(v) ==
    CHOOSE i \in 1..Len(v) : (\A k \in Range(v) : v[i] <= k) /\ \A j \in 1..(i-1) : v[j] > v[i]

\* np.argmax (line 127): the first index holding the maximum, 1-based here
np_argmax(v) ==
    CHOOSE i \in 1..Len(v) : v[i] = np_max(v) /\ \A j \in 1..(i-1) : v[j] < v[i]

Survives_Inverted(confidence) == confidence < CONFIDENCE_THRESHOLD

\* line 126: if confidence >= CONFIDENCE_THRESHOLD
Survives(confidence) == confidence >= CONFIDENCE_THRESHOLD

AddDetection_Prepend(dets, d) == <<d>> \o dets

\* line 128: detections.append({...})
AddDetection(dets, d) == Append(dets, d)

\* lines 123-132: one iteration of the loop for region r
Classify(r, p, dets) ==
    LET predictions == p[r]
        confidence  == np_max(predictions)
    IN  IF Survives(confidence)
        THEN AddDetection(dets, [box        |-> r,
                                 confidence |-> confidence,
                                 class      |-> CLASS_NAMES[np_argmax(predictions)]])
        ELSE dets

RECURSIVE DetectFrom(_, _, _)
\* lines 113-134: the loop over the regions
DetectFrom(regs, p, dets) ==
    IF regs = <<>> THEN dets
    ELSE DetectFrom(Tail(regs), p, Classify(Head(regs), p, dets))

detect_objects(image, p) == DetectFrom(get_region_proposals(image), p, <<>>)

----------------------------------------------------------------------------
(* draw_detection_boxes, lines 71-107 *)

\* lines 76-105: what one detection paints (box and label background in the
\* class colour, label text "<class>: <confidence>")
Mark(det) ==
    [box   |-> det.box,
     color |-> DETECTION_COLORS(det.class),
     label |-> <<det.class, det.confidence>>]

\* lines 75-105: painting every detection, in order, into buffer `pixels`
Paint(pixels, dets) == pixels \o [i \in 1..Len(dets) |-> Mark(dets[i])]

draw_detection_boxes_NoCopy(image, dets) ==
    LET drawn == [image EXCEPT !.pixels = Paint(@, dets)]
    IN  [input |-> drawn, output |-> drawn]

\* line 73 copies the image, lines 75-105 paint the copy, line 107 returns
\* it.  `input` is the caller's image after the call, `output` the result.
draw_detection_boxes(image, dets) ==
    [input  |-> image,
     output |-> [image EXCEPT !.pixels = Paint(@, dets)]]

----------------------------------------------------------------------------
(* load_detection_model under st.cache_resource, lines 37-44 *)

\* lines 39-44: load_model succeeds, or the exception is caught and None
\* is returned
LoadBody(artifactOk) == IF artifactOk THEN "model" ELSE "None"

CachedLoad_NoCacheOfNone(c, artifactOk) ==
    IF c.filled /\ c.value # "None"
    THEN [cache |-> c, value |-> c.value, ran |-> FALSE]
    ELSE LET v == LoadBody(artifactOk)
         IN  [cache |-> [filled |-> TRUE, value |-> v], value |-> v, ran |-> TRUE]

\* line 37: the first call runs the body and stores what it returns,
\* every later call returns the stored value
CachedLoad(c, artifactOk) ==
    IF c.filled
    THEN [cache |-> c, value |-> c.value, ran |-> FALSE]
    ELSE LET v == LoadBody(artifactOk)
         IN  [cache |-> [filled |-> TRUE, value |-> v], value |-> v, ran |-> TRUE]

ModelMissing_Never(m) == FALSE

\* lines 159 and 198: if model is None
ModelMissing(m) == m = "None"

----------------------------------------------------------------------------
(* The script *)

Frames == [contours : SeqsUpTo(Rects, MaxContours), pixels : {<<>>}]

\* the classifiers that can be told apart on frame f
Classifiers(f) == [Range(get_region_proposals(f)) -> ScoreVectors]

EmptyCache == [filled |-> FALSE, value |-> "unset"]

Init ==
    /\ pc = "start"
    /\ selected = "Home"
    /\ cache = EmptyCache
    /\ loadCount = 0
    /\ model = "unset"
    /\ runWidget = FALSE
    /\ run = FALSE
    /\ camera = "none"
    /\ frame = NoFrame
    /\ predict = NoPredict
    /\ regions = <<>>
    /\ detections = <<>>
    /\ result_image = NoFrame
    /\ messages = {}
    /\ polls = 0
    /\ detectCalls = 0
    /\ drawCalls = 0
    /\ readFailed = FALSE

\* lines 137-155, 194: routing on the sidebar selection; the Home page only
\* renders text
Route ==
    /\ pc = "start"
    /\ pc' = IF selected = "Home" THEN "done" ELSE "load"
    /\ UNCHANGED <<selected, cache, loadCount, model, runWidget, run, camera,
                   frame, predict, regions, detections, result_image, messages,
                   polls, detectCalls, drawCalls, readFailed>>

\* lines 158-161 and 197-200: model = load_detection_model(); the page
\* reports a missing model and does nothing else
LoadModel ==
    /\ pc = "load"
    /\ \E artifactOk \in BOOLEAN :
         LET r == CachedLoad(cache, artifactOk) IN
         /\ r.ran => loadCount < MaxLoads
         /\ cache' = r.cache
         /\ loadCount' = IF r.ran THEN loadCount + 1 ELSE loadCount
         /\ model' = r.value
         /\ messages' = messages
               \cup (IF r.ran /\ r.value = "None" THEN {"Error loading model"} ELSE {})
               \cup (IF ModelMissing(r.value) THEN {"Failed to load model"} ELSE {})
         /\ pc' = IF ModelMissing(r.value) THEN "done"
                  ELSE IF selected = "Upload Image" THEN "upload_file"
                  ELSE "live_controls"
    /\ UNCHANGED <<selected, runWidget, run, camera, frame, predict, regions,
                   detections, result_image, polls, detectCalls, drawCalls,
                   readFailed>>

\* lines 162-172: the uploader holds a file or not; a file is decoded
UploadFile ==
    /\ pc = "upload_file"
    /\ \/ /\ pc' = "done"
          /\ UNCHANGED <<frame, predict>>
       \/ \E f \in Frames : \E p \in Classifiers(f) :
          /\ frame' = f
          /\ predict' = p
          /\ pc' = "upload_button"
    /\ UNCHANGED <<selected, cache, loadCount, model, runWidget, run, camera,
                   regions, detections, result_image, messages, polls,
                   detectCalls, drawCalls, readFailed>>

\* line 175: if st.button("Detect Food Items")
UploadButton ==
    /\ pc = "upload_button"
    /\ \E clicked \in BOOLEAN : pc' = IF clicked THEN "detect" ELSE "done"
    /\ UNCHANGED <<selected, cache, loadCount, model, runWidget, run, camera,
                   frame, predict, regions, detections, result_image, messages,
                   polls, detectCalls, drawCalls, readFailed>>

\* lines 178 and 214: detections = detect_objects(...).  model.predict is
\* called once per region and may raise; nothing in the script catches it.
Detect ==
    /\ pc = "detect"
    /\ detectCalls' = detectCalls + 1
    /\ regions' = get_region_proposals(frame)
    /\ \/ /\ detections' = detect_objects(frame, predict)
          /\ pc' = "draw"
       \/ /\ get_region_proposals(frame) # <<>>
          /\ pc' = "aborted"
          /\ UNCHANGED detections
    /\ UNCHANGED <<selected, cache, loadCount, model, runWidget, run, camera,
                   frame, predict, result_image, messages, polls, drawCalls,
                   readFailed>>

\* lines 181 and 217: draw_detection_boxes(image, detections)
Draw ==
    /\ pc = "draw"
    /\ LET r == draw_detection_boxes(frame, detections) IN
       /\ frame' = r.input
       /\ result_image' = r.output
    /\ drawCalls' = drawCalls + 1
    /\ pc' = "show"
    /\ UNCHANGED <<selected, cache, loadCount, model, runWidget, run, camera,
                   predict, regions, detections, messages, polls, detectCalls,
                   readFailed>>

\* lines 182-191 (result and details, the script ends) and lines 220-224
\* (FRAME_WINDOW.image, sleep, back to the loop test).  In the loop the
\* iteration's values are never read again: the next iteration assigns
\* frame, detections and frame_with_detections before using them, so they
\* are dropped here.
Show ==
    /\ pc = "show"
    /\ IF selected = "Upload Image"
       THEN /\ pc' = "done"
            /\ UNCHANGED <<frame, predict, regions, detections, result_image>>
       ELSE /\ pc' = "loop"
            /\ frame' = NoFrame
            /\ predict' = NoPredict
            /\ regions' = <<>>
            /\ detections' = <<>>
            /\ result_image' = NoFrame
    /\ UNCHANGED <<selected, cache, loadCount, model, runWidget, run, camera,
                   messages, polls, detectCalls, drawCalls, readFailed>>

\* lines 202-205: run = st.checkbox(...); camera = cv2.VideoCapture(0)
LiveControls ==
    /\ pc = "live_controls"
    /\ run' = runWidget
    /\ camera' = "open"
    /\ pc' = "loop"
    /\ UNCHANGED <<selected, cache, loadCount, model, runWidget, frame, predict,
                   regions, detections, result_image, messages, polls,
                   detectCalls, drawCalls, readFailed>>

\* line 207: while run
LoopTest ==
    /\ pc = "loop"
    /\ pc' = IF run THEN "read" ELSE "release"
    /\ UNCHANGED <<selected, cache, loadCount, model, runWidget, run, camera,
                   frame, predict, regions, detections, result_image, messages,
                   polls, detectCalls, drawCalls, readFailed>>

CameraRead_NoBreak ==
    /\ pc = "read"
    /\ polls < MaxPolls
    /\ polls' = polls + 1
    /\ \/ /\ messages' = messages \cup {"Failed to access camera"}
          /\ readFailed' = TRUE
          /\ pc' = "detect"
          /\ UNCHANGED <<frame, predict>>
       \/ \E f \in Frames : \E p \in Classifiers(f) :
          /\ frame' = f
          /\ predict' = p
          /\ pc' = "detect"
          /\ UNCHANGED <<messages, readFailed>>
    /\ UNCHANGED <<selected, cache, loadCount, model, runWidget, run, camera,
                   regions, detections, result_image, detectCalls, drawCalls>>

\* lines 208-211: ret, frame = camera.read(); on failure st.error and break
CameraRead ==
    /\ pc = "read"
    /\ polls < MaxPolls
    /\ polls' = polls + 1
    /\ \/ /\ messages' = messages \cup {"Failed to access camera"}
          /\ readFailed' = TRUE
          /\ pc' = "release"
          /\ UNCHANGED <<frame, predict>>
       \/ \E f \in Frames : \E p \in Classifiers(f) :
          /\ frame' = f
          /\ predict' = p
          /\ pc' = "detect"
          /\ UNCHANGED <<messages, readFailed>>
    /\ UNCHANGED <<selected, cache, loadCount, model, runWidget, run, camera,
                   regions, detections, result_image, detectCalls, drawCalls>>

\* line 226: camera.release(), the last statement of the script
Release ==
    /\ pc = "release"
    /\ camera' = "released"
    /\ pc' = "done"
    /\ UNCHANGED <<selected, cache, loadCount, model, runWidget, run, frame,
                   predict, regions, detections, result_image, messages, polls,
                   detectCalls, drawCalls, readFailed>>

\* line 202: the user ticks or unticks 'Start Camera' in the browser
ToggleRun ==
    /\ runWidget' = ~runWidget
    /\ UNCHANGED <<pc, selected, cache, loadCount, model, run, camera, frame,
                   predict, regions, detections, result_image, messages, polls,
                   detectCalls, drawCalls, readFailed>>

\* lines 27-34: after a script run has ended, an interaction re-runs the
\* script from the top with fresh locals; the cache entry and the camera
\* device outlive the run
Rerun ==
    /\ pc \in {"done", "aborted"}
    /\ \E page \in Pages : selected' = page
    /\ pc' = "start"
    /\ model' = "unset"
    /\ run' = FALSE
    /\ frame' = NoFrame
    /\ predict' = NoPredict
    /\ regions' = <<>>
    /\ detections' = <<>>
    /\ result_image' = NoFrame
    /\ messages' = {}
    /\ polls' = 0
    /\ detectCalls' = 0
    /\ drawCalls' = 0
    /\ readFailed' = FALSE
    /\ UNCHANGED <<cache, loadCount, runWidget, camera>>

Next ==
    \/ Route
    \/ LoadModel
    \/ UploadFile
    \/ UploadButton
    \/ Detect
    \/ Draw
    \/ Show
    \/ LiveControls
    \/ LoopTest
    \/ CameraRead
    \/ Release
    \/ ToggleRun
    \/ Rerun

Spec == Init /\ [][Next]_vars

----------------------------------------------------------------------------
(* Properties *)

\* positions at which regions, detections and predict belong to `frame`
AfterDetect == pc \in {"draw", "show"}

Boxes(dets) == [i \in 1..Len(dets) |-> dets[i].box]

\* C1: once the camera has been acquired it is released on every exit path
\* of the capture loop, before the script run ends.
C1_ReleasedOnEveryExit ==
    pc \in {"done", "aborted"} => camera # "open"

\* C2: when the run flag is disabled while the loop is running, the next
\* evaluation of the loop condition leaves the loop for camera.release()
\* and acquires no further frame.
C2_LoopObservesFlag ==
    [][(pc = "loop" /\ pc' # "loop" /\ camera = "open" /\ ~runWidget)
          => pc' = "release"]_vars

\* C3: a failed camera read surfaces the camera error and ends the loop
\* with no detection and no drawing for that poll (so none at all when it
\* is the first poll), and the device is released when the script ends.
C3_ReadFailureStops ==
    readFailed =>
        /\ "Failed to access camera" \in messages
        /\ pc \in {"release", "done"}
        /\ detectCalls = polls - 1
        /\ drawCalls = polls - 1
        /\ pc = "done" => camera = "released"

C3_Witness ==
    /\ readFailed
    /\ polls = 1
    /\ detectCalls = 0
    /\ pc = "done"
    /\ camera = "released"

\* C4: when the model failed to load, the page shows an error, and neither
\* page performs a detection call or acquires the camera.
C4_NoDetectionWithoutModel ==
    (cache.filled /\ cache.value = "None") =>
        /\ camera = "none"
        /\ detectCalls = 0
        /\ drawCalls = 0
        /\ polls = 0
        /\ pc \in {"start", "load", "done"}
        /\ model = "None" => "Failed to load model" \in messages

C4_Witness ==
    /\ selected = "Live Camera"
    /\ model = "None"
    /\ pc = "done"
    /\ "Error loading model" \in messages
    /\ "Failed to load model" \in messages

\* C5: the model artifact is loaded at most once per process; every call
\* of load_detection_model returns the cached value, also after a load
\* that failed.
C5_LoadedAtMostOnce ==
    /\ loadCount <= 1
    /\ cache.filled <=> loadCount = 1
    /\ model # "unset" => cache.filled /\ model = cache.value

\* a later script run that got the cached None: the loader's own message
\* is absent because its body did not run
C5_Witness ==
    /\ loadCount = 1
    /\ model = "None"
    /\ messages = {"Failed to load model"}

\* C6: every detection has confidence >= CONFIDENCE_THRESHOLD; a region
\* whose scores are all below it yields no detection, so uniform 0.2 scores
\* on every region give an empty result.
C6_ConfidenceAtLeastThreshold ==
    /\ \A i \in 1..Len(detections) : detections[i].confidence >= CONFIDENCE_THRESHOLD
    /\ AfterDetect =>
         /\ \A r \in Range(regions) :
              (\A k \in Range(predict[r]) : k < CONFIDENCE_THRESHOLD)
                 => r \notin Range(Boxes(detections))
         /\ (\A r \in Range(regions) : predict[r] = Uniform) => detections = <<>>

C6_Witness ==
    /\ pc = "draw"
    /\ detections # <<>>
    /\ \E r \in Range(regions) : predict[r] = Uniform

LargeEnough(r) == r.w >= MinSize + 1 /\ r.h >= MinSize + 1

\* C7: get_region_proposals returns exactly the bounding rectangles with
\* width > 50 and height > 50, in order, and nothing when none passes.
C7_OnlyLargeRegions ==
    AfterDetect =>
        /\ \A r \in Range(regions) : ~(r.w <= MinSize) /\ ~(r.h <= MinSize)
        /\ regions = SelectSeq(frame.contours, LargeEnough)

C7_Witness ==
    /\ pc = "draw"
    /\ regions # <<>>
    /\ \E i \in 1..Len(frame.contours) :
         frame.contours[i].w > MinSize /\ frame.contours[i].h = MinSize

\* C8: draw_detection_boxes leaves its input frame unchanged; the marks are
\* painted into a separate image, which is returned.
C8_InputNotMutated ==
    [][(pc = "draw" /\ pc' = "show") =>
          /\ frame' = frame
          /\ result_image'.contours = frame.contours
          /\ Len(result_image'.pixels) = Len(frame.pixels) + Len(detections)]_vars

C8_Witness ==
    /\ pc = "show"
    /\ detections # <<>>
    /\ frame.pixels = <<>>
    /\ Len(result_image.pixels) = Len(detections)

\* detection d carries the maximum of v and the class name at an index of it
MaxAndClass(d, v) ==
    /\ d.confidence \in Range(v)
    /\ \A k \in Range(v) : k <= d.confidence
    /\ \E i \in 1..Len(v) : v[i] = d.confidence /\ d.class = CLASS_NAMES[i]

AlwaysCarbStub == \A r \in Range(regions) : predict[r] = CarbStub

\* C9 as stated: confidence is the maximum score and class the name at the
\* index of the maximum; with the stub [0.9,0.02,0.02,0.02,0.04] every
\* detection has class "carbohydrate" and confidence 0.9.
C9_Original ==
    AfterDetect =>
        /\ \A i \in 1..Len(detections) :
             MaxAndClass(detections[i], predict[detections[i].box])
        /\ AlwaysCarbStub =>
             \A i \in 1..Len(detections) :
                detections[i].class = "carbohydrate" /\ detections[i].confidence = 90

\* C9 amended: as above, but with the stub every detection has class
\* "karbohidrat", the first entry of CLASS_NAMES, and confidence 0.9.
C9_MaxAndClass ==
    AfterDetect =>
        /\ \A i \in 1..Len(detections) :
             MaxAndClass(detections[i], predict[detections[i].box])
        /\ AlwaysCarbStub =>
             \A i \in 1..Len(detections) :
                detections[i].class = CLASS_NAMES[1] /\ detections[i].confidence = 90

C9_Witness ==
    /\ pc = "draw"
    /\ AlwaysCarbStub
    /\ detections # <<>>
    /\ detections[1].class = "karbohidrat"

Qualifies(r) == \E k \in Range(predict[r]) : k >= CONFIDENCE_THRESHOLD

\* C10: the boxes of the detections are the proposed regions that qualify,
\* each once per occurrence and in region order; nothing is deduplicated.
C10_OrderPreservingSubsequence ==
    AfterDetect => Boxes(detections) = SelectSeq(regions, Qualifies)

C10_Witness ==
    /\ pc = "draw"
    /\ Len(detections) >= 2
    /\ detections[1].box # detections[2].box

====
